---- MODULE Spec2Model ----
(***************************************************************************)
(* Migration pipeline of raycast-ext-windows-migrate (src/src/index.ts).   *)
(* main() runs the steps Scan?, DependencyUpdate, ConfigNormalize,         *)
(* ManifestPatch, LintFix, Build in program order; every step is a call    *)
(* followed by the handling of its result.  The four utility modules       *)
(* (checkAppleScript, updateDependencies/runCommand, updateEslint,         *)
(* updatePackageJson) are imported by index.ts; their bodies are modelled  *)
(* from their contracts.                                                   *)
(***************************************************************************)
EXTENDS Integers, Sequences, FiniteSets, TLC

VARIABLES
    argv,             \* process.argv: the set of flags on the command line
    project,          \* the files below process.cwd()
    project0,         \* the project as it was when the run started
    pc,               \* position of main()
    skipAppleScript,  \* const skipAppleScript (line 44)
    stepNumber,       \* let stepNumber (line 50)
    totalSteps,       \* const totalSteps (line 51)
    appleScriptCheck, \* const appleScriptCheck (line 58)
    results,          \* updateResult, eslintResult, packageJsonResult, lintResult, buildResult
    invoked,          \* the step functions called so far, in call order
    out,              \* what was written to the console, in order
    written,          \* the project right after ManifestPatch returned
    exitCode,         \* process exit status, meaningful once pc = "exited"
    outcome           \* "running", "help", "halted", "error" or "completed"

vars == <<argv, project, project0, pc, skipAppleScript, stepNumber, totalSteps,
          appleScriptCheck, results, invoked, out, written, exitCode, outcome>>

----------------------------------------------------------------------------
(* Bounds *)

NumFiles == 2
MaxPlatforms == 2
MaxApplications == 3

----------------------------------------------------------------------------
(* Universe of inputs *)

Flags == {"--help", "-h", "--skip-applescript", "-s"}
Paths == 1..NumFiles
Platforms == {"macOS", "Windows"}
TargetPlatform == "Windows"
RequiredPlatforms == <<"macOS", "Windows">>

Steps == <<"Scan", "DependencyUpdate", "ConfigNormalize", "ManifestPatch", "LintFix", "Build">>
StepNames == {Steps[i] : i \in 1..Len(Steps)}
FatalSteps == {"Scan", "DependencyUpdate", "ConfigNormalize", "ManifestPatch", "Build"}

RECURSIVE SeqsUpTo(_, _)
SeqsUpTo(S, n) ==
    IF n = 0 THEN {<<>>}
    ELSE LET shorter == SeqsUpTo(S, n - 1)
         IN  shorter \cup {Append(q, x) : q \in shorter, x \in S}

\* indentation style and trailing newline of the manifest file
Formats == {"two spaces, newline", "tab, no newline"}

Manifests ==
    {[ok |-> FALSE, hasPlatforms |-> FALSE, platforms |-> <<>>, format |-> f] : f \in Formats}
    \cup {[ok |-> TRUE, hasPlatforms |-> FALSE, platforms |-> <<>>, format |-> f] : f \in Formats}
    \cup {[ok |-> TRUE, hasPlatforms |-> TRUE, platforms |-> q, format |-> f] :
              q \in SeqsUpTo(Platforms, MaxPlatforms), f \in Formats}

LintConfigs == {"legacy", "canonical", "malformed"}

\* a source file without marker, a source file with a marker, or a file with
\* a marker that the scanner does not read (dependency or build-output
\* directory, unreadable, binary)
FileKinds == {"clean", "marker", "skipped"}

\* the pipeline never looks at the formatting of the manifest: one format
DefaultFormat == "two spaces, newline"
Projects ==
    [files : [Paths -> FileKinds], deps : {"old"}, lint : LintConfigs,
     manifest : {m \in Manifests : m.format = DefaultFormat}]

\* the mutators never look at the source files: every manifest, no markers
MutatorProjects ==
    [files : {[p \in Paths |-> "clean"]}, deps : {"old"}, lint : LintConfigs, manifest : Manifests]

InSeq(x, q) == \E i \in 1..Len(q) : q[i] = x
Count(x, q) == Cardinality({i \in 1..Len(q) : q[i] = x})
IsPrefix(p, q) == Len(p) <= Len(q) /\ \A i \in 1..Len(p) : p[i] = q[i]

----------------------------------------------------------------------------
(* Console output *)

Ev(kind, step, x, y, text) == [kind |-> kind, step |-> step, x |-> x, y |-> y, text |-> text]
Header(step) == Ev("header", step, stepNumber, totalSteps, "")
Say(kind, step, text) == Ev(kind, step, 0, 0, text)
Opt(cond, ev) == IF cond THEN <<ev>> ELSE <<>>

RECURSIVE FileLines(_)
FileLines(files) ==
    IF files = <<>> THEN <<>>
    ELSE <<Ev("file", "Scan", Head(files), 0, "")>> \o FileLines(Tail(files))

----------------------------------------------------------------------------
(* Command line *)

HelpLongOnly(args) == "--help" \in args
HelpRequested(args) == "--help" \in args \/ "-h" \in args

SkipLongOnly(args) == "--skip-applescript" \in args
SkipRequested(args) == "--skip-applescript" \in args \/ "-s" \in args

TotalStepsFixed(skip) == IF skip THEN 6 ELSE 6
TotalSteps(skip) == IF skip THEN 5 ELSE 6

----------------------------------------------------------------------------
(* Utility modules *)

RECURSIVE MarkedFromAll(_, _)
\* MarkedFrom that also reads the files the scanner has to leave out
MarkedFromAll(p, kinds) ==
    IF p > NumFiles THEN <<>>
    ELSE (IF kinds[p] # "clean" THEN <<p>> ELSE <<>>) \o MarkedFromAll(p + 1, kinds)

RECURSIVE MarkedFrom(_, _)
MarkedFrom(p, kinds) ==
    IF p > NumFiles THEN <<>>
    ELSE (IF kinds[p] = "marker" THEN <<p>> ELSE <<>>) \o MarkedFrom(p + 1, kinds)

checkAppleScript(proj) ==
    LET files == MarkedFrom(1, proj.files)
    IN  [hasAppleScript |-> files # <<>>, files |-> files]

NoScan == [hasAppleScript |-> FALSE, files |-> <<>>]

Result(success, message, output, error, actions) ==
    [returned |-> TRUE, success |-> success, message |-> message,
     output |-> output, error |-> error, actions |-> actions]
NoResult ==
    [returned |-> FALSE, success |-> FALSE, message |-> "",
     output |-> "", error |-> "", actions |-> <<>>]

Texts == {"", "text"}

\* updateDependencies: the external updater decides the outcome
updateDependenciesResults ==
    {Result(TRUE, "updated", "", "", <<>>), Result(TRUE, "updated", "text", "", <<>>),
     Result(FALSE, "update failed", "", "", <<>>), Result(FALSE, "update failed", "text", "", <<>>)}
updateDependenciesDeps(r, deps) ==
    IF r.success THEN {"latest"} ELSE {deps, "latest"}

\* runCommand: the external tool decides the outcome
runCommandResults ==
    {Result(s, "", o, e, <<>>) : s \in BOOLEAN, o \in Texts, e \in Texts}

\* updateEslintConfig that rewrites the configuration whatever it finds
updateEslintConfigRewrite(lint) ==
    CASE lint = "malformed" -> [result |-> Result(FALSE, "cannot normalize", "", "", <<>>), lint |-> lint]
      [] OTHER              -> [result |-> Result(TRUE, "ok", "", "", <<"created canonical config">>),
                                lint |-> "canonical"]

updateEslintConfig(lint) ==
    CASE lint = "canonical" -> [result |-> Result(TRUE, "ok", "", "", <<>>), lint |-> lint]
      [] lint = "legacy"    -> [result |-> Result(TRUE, "ok", "", "", <<"created canonical config">>),
                                lint |-> "canonical"]
      [] OTHER              -> [result |-> Result(FALSE, "cannot normalize", "", "", <<>>), lint |-> lint]

\* updatePackageJsonPlatforms that adds the target platform without looking for it
updatePackageJsonPlatformsAppend(m) ==
    CASE ~m.ok ->
            [result |-> Result(FALSE, "cannot patch", "", "", <<>>), manifest |-> m]
      [] m.ok /\ ~m.hasPlatforms ->
            [result |-> Result(TRUE, "patched", "", "", <<"created platforms">>),
             manifest |-> [m EXCEPT !.hasPlatforms = TRUE, !.platforms = RequiredPlatforms]]
      [] OTHER ->
            [result |-> Result(TRUE, "patched", "", "", <<"added platform">>),
             manifest |-> [m EXCEPT !.platforms = Append(m.platforms, TargetPlatform)]]

\* updatePackageJsonPlatforms that puts the target platform in front of the list
updatePackageJsonPlatformsPrepend(m) ==
    CASE ~m.ok ->
            [result |-> Result(FALSE, "cannot patch", "", "", <<>>), manifest |-> m]
      [] m.ok /\ ~m.hasPlatforms ->
            [result |-> Result(TRUE, "patched", "", "", <<"created platforms">>),
             manifest |-> [m EXCEPT !.hasPlatforms = TRUE, !.platforms = RequiredPlatforms]]
      [] m.ok /\ m.hasPlatforms /\ ~InSeq(TargetPlatform, m.platforms) ->
            [result |-> Result(TRUE, "patched", "", "", <<"added platform">>),
             manifest |-> [m EXCEPT !.platforms = <<TargetPlatform>> \o m.platforms]]
      [] OTHER ->
            [result |-> Result(TRUE, "already present", "", "", <<>>), manifest |-> m]

updatePackageJsonPlatforms(m) ==
    CASE ~m.ok ->
            [result |-> Result(FALSE, "cannot patch", "", "", <<>>), manifest |-> m]
      [] m.ok /\ ~m.hasPlatforms ->
            [result |-> Result(TRUE, "patched", "", "", <<"created platforms">>),
             manifest |-> [m EXCEPT !.hasPlatforms = TRUE, !.platforms = RequiredPlatforms]]
      [] m.ok /\ m.hasPlatforms /\ ~InSeq(TargetPlatform, m.platforms) ->
            [result |-> Result(TRUE, "patched", "", "", <<"added platform">>),
             manifest |-> [m EXCEPT !.platforms = Append(m.platforms, TargetPlatform)]]
      [] OTHER ->
            [result |-> Result(TRUE, "already present", "", "", <<>>), manifest |-> m]

----------------------------------------------------------------------------
(* main() *)

Init ==
    /\ argv \in SUBSET Flags
    /\ project \in Projects
    /\ project0 = project
    /\ pc = "start"
    /\ skipAppleScript = FALSE
    /\ stepNumber = 0
    /\ totalSteps = 0
    /\ appleScriptCheck = NoScan
    /\ results = [s \in StepNames \ {"Scan"} |-> NoResult]
    /\ invoked = <<>>
    /\ out = <<>>
    /\ written = project
    /\ exitCode = 0
    /\ outcome = "running"

\* process.exit(code) after printing evs
Exit(code, how, evs) ==
    /\ pc' = "exited"
    /\ exitCode' = code
    /\ outcome' = how
    /\ out' = out \o evs

\* lines 39-41 and showHelp (8-35)
ShowHelp ==
    /\ pc = "start"
    /\ HelpRequested(argv)
    /\ Exit(0, "help", <<Say("usage", "", "")>>)
    /\ UNCHANGED <<argv, project, project0, skipAppleScript, stepNumber, totalSteps,
                   appleScriptCheck, results, invoked, written>>


\* ParseArgs where the skip flag also moves the entry point past the dependency update
ParseArgsReorder ==
    /\ pc = "start"
    /\ ~HelpRequested(argv)
    /\ skipAppleScript' = SkipRequested(argv)
    /\ stepNumber' = 1
    /\ totalSteps' = TotalSteps(skipAppleScript')
    /\ pc' = IF ~skipAppleScript' THEN "scan" ELSE "eslint"
    /\ out' = out \o <<Say("banner", "", "")>> \o Opt(skipAppleScript', Say("warn", "Scan", "skipping"))
    /\ UNCHANGED <<argv, project, project0, appleScriptCheck, results, invoked, written,
                   exitCode, outcome>>

\* lines 43-54 and 81-87
ParseArgs ==
    /\ pc = "start"
    /\ ~HelpRequested(argv)
    /\ skipAppleScript' = SkipRequested(argv)
    /\ stepNumber' = 1
    /\ totalSteps' = TotalSteps(skipAppleScript')
    /\ pc' = IF ~skipAppleScript' THEN "scan" ELSE "dep"
    /\ out' = out \o <<Say("banner", "", "")>> \o Opt(skipAppleScript', Say("warn", "Scan", "skipping"))
    /\ UNCHANGED <<argv, project, project0, appleScriptCheck, results, invoked, written,
                   exitCode, outcome>>

\* A step is entered: its header is printed and its function is called
Call(at, step, wait) ==
    /\ pc = at
    /\ pc' = wait
    /\ out' = Append(out, Header(step))
    /\ invoked' = Append(invoked, step)

\* lines 55-58
ScanCall ==
    /\ Call("scan", "Scan", "scanWait")
    /\ UNCHANGED <<argv, project, project0, skipAppleScript, stepNumber, totalSteps,
                   appleScriptCheck, results, written, exitCode, outcome>>


\* ScanReturn without the process.exit(1) of line 76
ScanReturnNoExit ==
    /\ pc = "scanWait"
    /\ appleScriptCheck' = checkAppleScript(project)
    /\ out' = IF appleScriptCheck'.hasAppleScript
              THEN out \o <<Say("fail", "Scan", "AppleScript usage detected!")>>
                       \o FileLines(appleScriptCheck'.files)
                       \o <<Say("log", "Scan", "cannot be converted"), Say("log", "Scan", "tip")>>
              ELSE Append(out, Say("succeed", "Scan", "No AppleScript usage detected"))
    /\ stepNumber' = stepNumber + 1
    /\ pc' = "dep"
    /\ UNCHANGED <<exitCode, outcome>>
    /\ UNCHANGED <<argv, project, project0, skipAppleScript, totalSteps, results, invoked, written>>

\* lines 58-80
ScanReturn ==
    /\ pc = "scanWait"
    /\ appleScriptCheck' = checkAppleScript(project)
    /\ IF appleScriptCheck'.hasAppleScript
       THEN /\ Exit(1, "halted",
                    <<Say("fail", "Scan", "AppleScript usage detected!")>>
                    \o FileLines(appleScriptCheck'.files)
                    \o <<Say("log", "Scan", "cannot be converted"), Say("log", "Scan", "tip")>>)
            /\ UNCHANGED stepNumber
       ELSE /\ out' = Append(out, Say("succeed", "Scan", "No AppleScript usage detected"))
            /\ stepNumber' = stepNumber + 1
            /\ pc' = "dep"
            /\ UNCHANGED <<exitCode, outcome>>
    /\ UNCHANGED <<argv, project, project0, skipAppleScript, totalSteps, results, invoked, written>>

\* lines 90-93
DepCall ==
    /\ Call("dep", "DependencyUpdate", "depWait")
    /\ UNCHANGED <<argv, project, project0, skipAppleScript, stepNumber, totalSteps,
                   appleScriptCheck, results, written, exitCode, outcome>>


\* DepReturn that exits on a failure without the spinner2.fail of line 96
DepReturnSilent ==
    /\ pc = "depWait"
    /\ \E r \in updateDependenciesResults : \E d \in updateDependenciesDeps(r, project.deps) :
        /\ results' = [results EXCEPT !["DependencyUpdate"] = r]
        /\ project' = [project EXCEPT !.deps = d]
        /\ IF ~r.success
           THEN /\ Exit(1, "halted", Opt(r.output # "", Say("log", "DependencyUpdate", r.output)))
                /\ UNCHANGED stepNumber
           ELSE /\ out' = out \o <<Say("succeed", "DependencyUpdate", "Dependencies updated successfully")>>
                                \o Opt(r.output # "", Say("log", "DependencyUpdate", r.output))
                /\ stepNumber' = stepNumber + 1
                /\ pc' = "eslint"
                /\ UNCHANGED <<exitCode, outcome>>
    /\ UNCHANGED <<argv, project0, skipAppleScript, totalSteps, appleScriptCheck, invoked, written>>

\* DepReturn that calls the updater a second time after a failure
DepReturnRetry ==
    /\ pc = "depWait"
    /\ \E r \in updateDependenciesResults : \E d \in updateDependenciesDeps(r, project.deps) :
        /\ results' = [results EXCEPT !["DependencyUpdate"] = r]
        /\ project' = [project EXCEPT !.deps = d]
        /\ IF ~r.success /\ Count("DependencyUpdate", invoked) < 2
           THEN /\ out' = Append(out, Say("warn", "DependencyUpdate", "retrying"))
                /\ pc' = "dep"
                /\ UNCHANGED <<stepNumber, exitCode, outcome>>
           ELSE IF ~r.success
           THEN /\ Exit(1, "halted",
                        <<Say("fail", "DependencyUpdate", r.message)>>
                        \o Opt(r.output # "", Say("log", "DependencyUpdate", r.output)))
                /\ UNCHANGED stepNumber
           ELSE /\ out' = out \o <<Say("succeed", "DependencyUpdate", "Dependencies updated successfully")>>
                                \o Opt(r.output # "", Say("log", "DependencyUpdate", r.output))
                /\ stepNumber' = stepNumber + 1
                /\ pc' = "eslint"
                /\ UNCHANGED <<exitCode, outcome>>
    /\ UNCHANGED <<argv, project0, skipAppleScript, totalSteps, appleScriptCheck, invoked, written>>

\* lines 93-107
DepReturn ==
    /\ pc = "depWait"
    /\ \E r \in updateDependenciesResults : \E d \in updateDependenciesDeps(r, project.deps) :
        /\ results' = [results EXCEPT !["DependencyUpdate"] = r]
        /\ project' = [project EXCEPT !.deps = d]
        /\ IF ~r.success
           THEN /\ Exit(1, "halted",
                        <<Say("fail", "DependencyUpdate", r.message)>>
                        \o Opt(r.output # "", Say("log", "DependencyUpdate", r.output)))
                /\ UNCHANGED stepNumber
           ELSE /\ out' = out \o <<Say("succeed", "DependencyUpdate", "Dependencies updated successfully")>>
                                \o Opt(r.output # "", Say("log", "DependencyUpdate", r.output))
                /\ stepNumber' = stepNumber + 1
                /\ pc' = "eslint"
                /\ UNCHANGED <<exitCode, outcome>>
    /\ UNCHANGED <<argv, project0, skipAppleScript, totalSteps, appleScriptCheck, invoked, written>>

\* lines 110-113
EslintCall ==
    /\ Call("eslint", "ConfigNormalize", "eslintWait")
    /\ UNCHANGED <<argv, project, project0, skipAppleScript, stepNumber, totalSteps,
                   appleScriptCheck, results, written, exitCode, outcome>>

RECURSIVE ActionLines(_, _)
ActionLines(step, actions) ==
    IF actions = <<>> THEN <<>>
    ELSE <<Say("action", step, Head(actions))>> \o ActionLines(step, Tail(actions))

\* lines 113-124
EslintReturn ==
    /\ pc = "eslintWait"
    /\ LET u == updateEslintConfig(project.lint)
           r == u.result
       IN  /\ results' = [results EXCEPT !["ConfigNormalize"] = r]
           /\ project' = [project EXCEPT !.lint = u.lint]
           /\ IF ~r.success
              THEN /\ Exit(1, "halted", <<Say("fail", "ConfigNormalize", r.message)>>)
                   /\ UNCHANGED stepNumber
              ELSE /\ out' = out \o <<Say("succeed", "ConfigNormalize", "ESLint configuration updated successfully")>>
                                   \o ActionLines("ConfigNormalize", r.actions)
                   /\ stepNumber' = stepNumber + 1
                   /\ pc' = "pkg"
                   /\ UNCHANGED <<exitCode, outcome>>
    /\ UNCHANGED <<argv, project0, skipAppleScript, totalSteps, appleScriptCheck, invoked, written>>

\* lines 127-130
PkgCall ==
    /\ Call("pkg", "ManifestPatch", "pkgWait")
    /\ UNCHANGED <<argv, project, project0, skipAppleScript, stepNumber, totalSteps,
                   appleScriptCheck, results, written, exitCode, outcome>>


\* PkgReturn without the process.exit(1) of line 134
PkgReturnContinue ==
    /\ pc = "pkgWait"
    /\ LET u == updatePackageJsonPlatforms(project.manifest)
           r == u.result
       IN  /\ results' = [results EXCEPT !["ManifestPatch"] = r]
           /\ project' = [project EXCEPT !.manifest = u.manifest]
           /\ written' = project'
           /\ out' = out \o <<Say(IF r.success THEN "succeed" ELSE "fail", "ManifestPatch", r.message)>>
                         \o ActionLines("ManifestPatch", r.actions)
           /\ stepNumber' = stepNumber + 1
           /\ pc' = "lint"
           /\ UNCHANGED <<exitCode, outcome>>
    /\ UNCHANGED <<argv, project0, skipAppleScript, totalSteps, appleScriptCheck, invoked>>

\* lines 130-141
PkgReturn ==
    /\ pc = "pkgWait"
    /\ LET u == updatePackageJsonPlatforms(project.manifest)
           r == u.result
       IN  /\ results' = [results EXCEPT !["ManifestPatch"] = r]
           /\ project' = [project EXCEPT !.manifest = u.manifest]
           /\ written' = project'
           /\ IF ~r.success
              THEN /\ Exit(1, "halted", <<Say("fail", "ManifestPatch", r.message)>>)
                   /\ UNCHANGED stepNumber
              ELSE /\ out' = out \o <<Say("succeed", "ManifestPatch", r.message)>>
                                   \o ActionLines("ManifestPatch", r.actions)
                   /\ stepNumber' = stepNumber + 1
                   /\ pc' = "lint"
                   /\ UNCHANGED <<exitCode, outcome>>
    /\ UNCHANGED <<argv, project0, skipAppleScript, totalSteps, appleScriptCheck, invoked>>

\* lines 144-147
LintCall ==
    /\ Call("lint", "LintFix", "lintWait")
    /\ UNCHANGED <<argv, project, project0, skipAppleScript, stepNumber, totalSteps,
                   appleScriptCheck, results, written, exitCode, outcome>>


\* LintReturn that treats a lint failure like the failure of any other step
LintReturnFatal ==
    /\ pc = "lintWait"
    /\ \E r \in runCommandResults :
        /\ results' = [results EXCEPT !["LintFix"] = r]
        /\ IF ~r.success
           THEN /\ Exit(1, "halted", <<Say("fail", "LintFix", "Lint failed")>>)
                /\ UNCHANGED stepNumber
           ELSE /\ out' = out \o <<Say("succeed", "LintFix", "Lint completed")>>
                             \o Opt(r.output # "", Say("log", "LintFix", r.output))
                             \o Opt(r.error # "", Say("warn", "LintFix", r.error))
                /\ stepNumber' = stepNumber + 1
                /\ pc' = "build"
                /\ UNCHANGED <<exitCode, outcome>>
    /\ UNCHANGED <<argv, project, project0, skipAppleScript, totalSteps, appleScriptCheck,
                   invoked, written>>

\* lines 147-156
LintReturn ==
    /\ pc = "lintWait"
    /\ \E r \in runCommandResults :
        /\ results' = [results EXCEPT !["LintFix"] = r]
        /\ out' = out \o <<Say("succeed", "LintFix", "Lint completed")>>
                      \o Opt(r.output # "", Say("log", "LintFix", r.output))
                      \o Opt(r.error # "", Say("warn", "LintFix", r.error))
        /\ stepNumber' = stepNumber + 1
        /\ pc' = "build"
    /\ UNCHANGED <<argv, project, project0, skipAppleScript, totalSteps, appleScriptCheck,
                   invoked, written, exitCode, outcome>>

\* lines 159-162
BuildCall ==
    /\ Call("build", "Build", "buildWait")
    /\ UNCHANGED <<argv, project, project0, skipAppleScript, stepNumber, totalSteps,
                   appleScriptCheck, results, written, exitCode, outcome>>


\* BuildReturn without the process.exit(1) of line 170
BuildReturnIgnored ==
    /\ pc = "buildWait"
    /\ \E r \in runCommandResults :
        /\ results' = [results EXCEPT !["Build"] = r]
        /\ out' = IF ~r.success
                  THEN out \o <<Say("fail", "Build", "Build failed"), Say("log", "Build", r.error)>>
                           \o Opt(r.output # "", Say("log", "Build", r.output))
                  ELSE out \o <<Say("succeed", "Build", "Build successful")>>
                           \o Opt(r.output # "", Say("log", "Build", r.output))
        /\ pc' = "complete"
        /\ UNCHANGED <<exitCode, outcome>>
    /\ UNCHANGED <<argv, project, project0, skipAppleScript, stepNumber, totalSteps,
                   appleScriptCheck, invoked, written>>

\* BuildReturn that restores the project before it exits on a failed build
BuildReturnRollback ==
    /\ pc = "buildWait"
    /\ \E r \in runCommandResults :
        /\ results' = [results EXCEPT !["Build"] = r]
        /\ IF ~r.success
           THEN /\ Exit(1, "halted",
                        <<Say("fail", "Build", "Build failed"), Say("log", "Build", r.error)>>
                        \o Opt(r.output # "", Say("log", "Build", r.output)))
                /\ project' = project0
           ELSE /\ out' = out \o <<Say("succeed", "Build", "Build successful")>>
                                \o Opt(r.output # "", Say("log", "Build", r.output))
                /\ pc' = "complete"
                /\ UNCHANGED <<exitCode, outcome, project>>
    /\ UNCHANGED <<argv, project0, skipAppleScript, stepNumber, totalSteps,
                   appleScriptCheck, invoked, written>>

\* lines 162-176
BuildReturn ==
    /\ pc = "buildWait"
    /\ \E r \in runCommandResults :
        /\ results' = [results EXCEPT !["Build"] = r]
        /\ IF ~r.success
           THEN Exit(1, "halted",
                     <<Say("fail", "Build", "Build failed"), Say("log", "Build", r.error)>>
                     \o Opt(r.output # "", Say("log", "Build", r.output)))
           ELSE /\ out' = out \o <<Say("succeed", "Build", "Build successful")>>
                                \o Opt(r.output # "", Say("log", "Build", r.output))
                /\ pc' = "complete"
                /\ UNCHANGED <<exitCode, outcome>>
    /\ UNCHANGED <<argv, project, project0, skipAppleScript, stepNumber, totalSteps,
                   appleScriptCheck, invoked, written>>

\* Complete whose summary names steps 5 and 6 whatever the skip flag
CompleteFixed ==
    /\ pc = "complete"
    /\ Exit(0, "completed",
            <<Say("done", "", "Migration completed!"),
              Ev("summary", "LintFix", 5, 0, ""),
              Ev("summary", "Build", 6, 0, ""),
              Say("log", "", "next steps")>>)
    /\ UNCHANGED <<argv, project, project0, skipAppleScript, stepNumber, totalSteps,
                   appleScriptCheck, results, invoked, written>>

\* lines 178-198: the summary, then main() returns and the process ends
Complete ==
    /\ pc = "complete"
    /\ LET lintStep == IF skipAppleScript THEN 4 ELSE 5
           buildStep == IF skipAppleScript THEN 5 ELSE 6
       IN  Exit(0, "completed",
                <<Say("done", "", "Migration completed!"),
                  Ev("summary", "LintFix", lintStep, 0, ""),
                  Ev("summary", "Build", buildStep, 0, ""),
                  Say("log", "", "next steps")>>)
    /\ UNCHANGED <<argv, project, project0, skipAppleScript, stepNumber, totalSteps,
                   appleScriptCheck, results, invoked, written>>

WaitPcs == {"scanWait", "depWait", "eslintWait", "pkgWait", "lintWait", "buildWait"}

\* Raise whose handler exits with status 0
RaiseExitZero ==
    /\ pc \in WaitPcs
    /\ Exit(0, "error", <<Say("error", "", "Error occurred")>>)
    /\ UNCHANGED <<argv, project, project0, skipAppleScript, stepNumber, totalSteps,
                   appleScriptCheck, results, invoked, written>>

\* Raise whose handler prints the error and does not end the process
RaiseNoExit ==
    /\ pc \in WaitPcs
    /\ pc' = "caught"
    /\ out' = Append(out, Say("error", "", "Error occurred"))
    /\ UNCHANGED <<argv, project, project0, skipAppleScript, stepNumber, totalSteps,
                   appleScriptCheck, results, invoked, written, exitCode, outcome>>

\* lines 200-203: the call in progress throws, main() rejects
Raise ==
    /\ pc \in WaitPcs
    /\ Exit(1, "error", <<Say("error", "", "Error occurred")>>)
    /\ UNCHANGED <<argv, project, project0, skipAppleScript, stepNumber, totalSteps,
                   appleScriptCheck, results, invoked, written>>

Next ==
    \/ ShowHelp
    \/ ParseArgs
    \/ ScanCall
    \/ ScanReturn
    \/ DepCall
    \/ DepReturn
    \/ EslintCall
    \/ EslintReturn
    \/ PkgCall
    \/ PkgReturn
    \/ LintCall
    \/ LintReturn
    \/ BuildCall
    \/ BuildReturn
    \/ Complete
    \/ Raise

Spec == Init /\ [][Next]_vars

----------------------------------------------------------------------------
(* The two file mutators applied again and again to the same project, as by  *)
(* successive runs of the tool: each application is the call and the lines   *)
(* main prints for its result.                                               *)

InitMutators ==
    /\ argv = {}
    /\ project \in MutatorProjects
    /\ project0 = project
    /\ pc = "mutators"
    /\ skipAppleScript = FALSE
    /\ stepNumber = 0
    /\ totalSteps = 0
    /\ appleScriptCheck = NoScan
    /\ results = [s \in StepNames \ {"Scan"} |-> NoResult]
    /\ invoked = <<>>
    /\ out = <<>>
    /\ written = project
    /\ exitCode = 0
    /\ outcome = "running"

\* lines 113-123
ApplyConfigNormalize ==
    /\ pc = "mutators"
    /\ Len(invoked) < MaxApplications
    /\ LET u == updateEslintConfig(project.lint)
           r == u.result
       IN  /\ results' = [results EXCEPT !["ConfigNormalize"] = r]
           /\ project' = [project EXCEPT !.lint = u.lint]
           /\ out' = IF ~r.success
                     THEN Append(out, Say("fail", "ConfigNormalize", r.message))
                     ELSE out \o <<Say("succeed", "ConfigNormalize", "ESLint configuration updated successfully")>>
                              \o ActionLines("ConfigNormalize", r.actions)
    /\ written' = project
    /\ invoked' = Append(invoked, "ConfigNormalize")
    /\ UNCHANGED <<argv, project0, pc, skipAppleScript, stepNumber, totalSteps,
                   appleScriptCheck, exitCode, outcome>>

\* lines 130-140
ApplyManifestPatch ==
    /\ pc = "mutators"
    /\ Len(invoked) < MaxApplications
    /\ LET u == updatePackageJsonPlatforms(project.manifest)
           r == u.result
       IN  /\ results' = [results EXCEPT !["ManifestPatch"] = r]
           /\ project' = [project EXCEPT !.manifest = u.manifest]
           /\ out' = IF ~r.success
                     THEN Append(out, Say("fail", "ManifestPatch", r.message))
                     ELSE out \o <<Say("succeed", "ManifestPatch", r.message)>>
                              \o ActionLines("ManifestPatch", r.actions)
    /\ written' = project
    /\ invoked' = Append(invoked, "ManifestPatch")
    /\ UNCHANGED <<argv, project0, pc, skipAppleScript, stepNumber, totalSteps,
                   appleScriptCheck, exitCode, outcome>>

NextMutators ==
    \/ ApplyConfigNormalize
    \/ ApplyManifestPatch

SpecMutators == InitMutators /\ [][NextMutators]_vars

TypeOK ==
    /\ argv \subseteq Flags
    /\ project \in [files : [Paths -> FileKinds], deps : {"old", "latest"}, lint : LintConfigs,
                    manifest : [ok : BOOLEAN, hasPlatforms : BOOLEAN, platforms : Seq(Platforms),
                                format : Formats]]
    /\ pc \in {"mutators", "start", "scan", "dep", "eslint", "pkg", "lint", "build", "complete", "exited"} \cup WaitPcs
    /\ skipAppleScript \in BOOLEAN
    /\ stepNumber \in 0..6
    /\ totalSteps \in {0, 5, 6}
    /\ exitCode \in {0, 1}
    /\ outcome \in {"running", "help", "halted", "error", "completed"}

----------------------------------------------------------------------------
(* Observations used by the properties *)

HelpFlagGiven == argv \cap {"--help", "-h"} # {}
SkipFlagGiven == argv \cap {"--skip-applescript", "-s"} # {}

ActiveSteps == IF SkipFlagGiven THEN Tail(Steps) ELSE Steps

Headers == SelectSeq(out, LAMBDA e : e.kind = "header")
Printed(kind) == \E i \in 1..Len(out) : out[i].kind = kind

\* the step's status line is on the console: its call has returned
Returned(s) == \E i \in 1..Len(out) : out[i].step = s /\ out[i].kind \in {"succeed", "fail"}

Failed(s) ==
    IF s = "Scan" THEN appleScriptCheck.hasAppleScript
    ELSE results[s].returned /\ ~results[s].success
Succeeded(s) ==
    IF s = "Scan" THEN Returned("Scan") /\ ~appleScriptCheck.hasAppleScript
    ELSE results[s].returned /\ results[s].success

Terminated == pc = "exited"

----------------------------------------------------------------------------
(* Properties *)

\* C1: fail-fast.  Once Scan has reported an incompatibility, or
\* DependencyUpdate, ConfigNormalize, ManifestPatch or Build has returned
\* success=false, the run is Halted and no step later in the fixed order has
\* been invoked, in this and in every later state.
FailFast ==
    \A i \in 1..Len(Steps) :
        (Steps[i] \in FatalSteps /\ Failed(Steps[i])) =>
            /\ Terminated
            /\ outcome = "halted"
            /\ \A j \in (i + 1)..Len(Steps) : ~InSeq(Steps[j], invoked)
            /\ invoked[Len(invoked)] = Steps[i]

FailFastWitness ==
    /\ Terminated
    /\ Failed("ManifestPatch")
    /\ invoked = <<"Scan", "DependencyUpdate", "ConfigNormalize", "ManifestPatch">>

\* C2: fixed order.  With or without the skip flag the steps invoked so far
\* are a prefix of [Scan unless skipped, DependencyUpdate, ConfigNormalize,
\* ManifestPatch, LintFix, Build], and every step but the last one invoked
\* has returned.
FixedOrder ==
    /\ IsPrefix(invoked, ActiveSteps)
    /\ \A i \in 1..(Len(invoked) - 1) : Returned(invoked[i])

FixedOrderWitness ==
    /\ SkipFlagGiven
    /\ Terminated
    /\ invoked = <<"DependencyUpdate", "ConfigNormalize", "ManifestPatch", "LintFix", "Build">>

\* C3: LintFix is advisory.  When ManifestPatch has succeeded LintFix is the
\* next step invoked; when LintFix has returned, whatever it returned, Build is
\* the next step invoked; a run whose LintFix failed ends Halted or with status
\* 1 only because Build failed or a call raised.
LintAdvisory ==
    /\ Succeeded("ManifestPatch") => (pc = "lint" \/ InSeq("LintFix", invoked))
    /\ results["LintFix"].returned => (pc = "build" \/ InSeq("Build", invoked))
    /\ (Failed("LintFix") /\ (outcome = "halted" \/ (Terminated /\ exitCode = 1))) =>
            (Failed("Build") \/ outcome = "error")

LintAdvisoryWitness ==
    /\ Failed("LintFix")
    /\ Succeeded("Build")
    /\ Terminated
    /\ exitCode = 0
    /\ outcome = "completed"

\* C4: exit status.  A run without the help flag that has terminated has
\* status 0 exactly when every active fatal step succeeded and the summary
\* was reached, and status 1 exactly when a fatal step failed or a call
\* raised.
AllFatalSucceeded ==
    \A i \in 1..Len(ActiveSteps) : ActiveSteps[i] \in FatalSteps => Succeeded(ActiveSteps[i])
SomeFatalFailed ==
    \E i \in 1..Len(ActiveSteps) : ActiveSteps[i] \in FatalSteps /\ Failed(ActiveSteps[i])

ExitStatus ==
    (Terminated /\ ~HelpFlagGiven) =>
        /\ exitCode = 0 <=> (AllFatalSucceeded /\ Printed("done") /\ outcome = "completed")
        /\ exitCode = 1 <=> (SomeFatalFailed \/ Printed("error"))

ExitStatusWitness ==
    /\ Terminated
    /\ ~HelpFlagGiven
    /\ ~SkipFlagGiven
    /\ exitCode = 0
    /\ Failed("LintFix")

\* C5: skip scan.  With --skip-applescript or -s on the command line the
\* scanner is never called and its result never computed, every header shows
\* a total of 5, and the first step invoked is DependencyUpdate.
SkipScan ==
    SkipFlagGiven =>
        /\ ~InSeq("Scan", invoked)
        /\ appleScriptCheck = NoScan
        /\ \A i \in 1..Len(out) : out[i].kind = "header" => (out[i].y = 5 /\ out[i].step # "Scan")
        /\ pc # "start" /\ ~HelpFlagGiven => totalSteps = 5
        /\ invoked # <<>> => invoked[1] = "DependencyUpdate"

SkipScanWitness ==
    /\ argv = {"-s"}
    /\ Len(invoked) >= 2
    /\ Len(Headers) >= 2

\* C6: step numbering.  The i-th header printed is 'Step i/Y' with Y = 5 when
\* the skip flag is given and 6 otherwise; X never exceeds Y, the Build
\* header has X = Y and with the scan skipped DependencyUpdate is step 1.
StepNumbering ==
    LET Y == IF SkipFlagGiven THEN 5 ELSE 6
        H == Headers
    IN  \A i \in 1..Len(H) :
            /\ H[i].x = i
            /\ H[i].y = Y
            /\ H[i].x <= H[i].y
            /\ H[i].step = "Build" => H[i].x = H[i].y
            /\ (SkipFlagGiven /\ H[i].step = "DependencyUpdate") => H[i].x = 1

StepNumberingWitness ==
    /\ SkipFlagGiven
    /\ Len(Headers) = 5
    /\ Headers[5].step = "Build"

\* C7: a scan blocker leaves the project untouched.  Without the skip flag,
\* once the scanner has reported an incompatibility the run has halted with
\* status 1, every path of the result is on the console and the manifest, the
\* lint configuration and the dependency files are as they were at the start.
ScanBlockerUntouched ==
    (~SkipFlagGiven /\ appleScriptCheck.hasAppleScript) =>
        /\ Terminated
        /\ exitCode = 1
        /\ outcome = "halted"
        /\ \A i \in 1..Len(appleScriptCheck.files) :
              \E j \in 1..Len(out) : out[j].kind = "file" /\ out[j].x = appleScriptCheck.files[i]
        /\ project.manifest = project0.manifest
        /\ project.lint = project0.lint
        /\ project.deps = project0.deps

ScanBlockerWitness ==
    /\ appleScriptCheck.hasAppleScript
    /\ Len(appleScriptCheck.files) = NumFiles
    /\ Terminated
    /\ project0.lint = "legacy"

\* C8: no rollback.  Once Build has failed the run has halted with status 1
\* and the lint configuration and the manifest are still what ConfigNormalize
\* and ManifestPatch left on disk.
NoRollback ==
    Failed("Build") =>
        /\ Terminated
        /\ exitCode = 1
        /\ outcome = "halted"
        /\ project.lint = written.lint
        /\ project.manifest = written.manifest

NoRollbackWitness ==
    /\ Failed("Build")
    /\ Terminated
    /\ written.lint # project0.lint
    /\ written.manifest # project0.manifest
    /\ project.lint = "canonical"
    /\ InSeq(TargetPlatform, project.manifest.platforms)

\* C9: help flag.  With --help or -h among the arguments, with or without
\* the skip flag, no step is ever invoked, nothing but the usage is printed
\* and the process exits with status 0.
HelpOnly ==
    HelpFlagGiven =>
        /\ invoked = <<>>
        /\ pc \in {"start", "exited"}
        /\ \A i \in 1..Len(out) : out[i].kind = "usage"
        /\ Terminated => (exitCode = 0 /\ outcome = "help" /\ Printed("usage"))

HelpOnlyWitness ==
    /\ argv = {"-h", "-s"}
    /\ Terminated
    /\ exitCode = 0

\* C10: no retries.  No step is invoked more than once in a run, whether it
\* succeeded or failed.
NoRetries ==
    \A s \in StepNames : Count(s, invoked) <= 1

NoRetriesWitness ==
    /\ Terminated
    /\ Failed("DependencyUpdate")
    /\ Count("DependencyUpdate", invoked) = 1

LinesOf(kind) == SelectSeq(out, LAMBDA e : e.kind = kind)
Last(q) == q[Len(q)]

\* C11: one diagnostic per halting cause.  A run that is Halted has exactly
\* one failure status line on the console, that line belongs to the step whose
\* failure halted the run (the last step invoked), and a run never ends Halted
\* with status 1 without it.
OneDiagnostic ==
    outcome = "halted" =>
        /\ Terminated
        /\ exitCode = 1
        /\ Len(LinesOf("fail")) = 1
        /\ LinesOf("fail")[1].step = Last(invoked)
        /\ Failed(Last(invoked))
        /\ Last(invoked) \in FatalSteps

OneDiagnosticWitness ==
    /\ outcome = "halted"
    /\ Failed("Build")
    /\ Failed("LintFix")
    /\ Len(LinesOf("fail")) = 1

\* C12: unexpected errors.  When a call has raised, whichever step it was
\* (the synchronous ones included), the handler has printed its diagnostic as
\* the last line, the process has exited with status 1, and the step that
\* raised is the last one invoked.
Raised == \E i \in 1..Len(invoked) : ~Returned(invoked[i])

UnexpectedError ==
    /\ Printed("error") =>
          /\ Terminated
          /\ exitCode = 1
          /\ Len(LinesOf("error")) = 1
          /\ Last(out).kind = "error"
          /\ ~Returned(Last(invoked))
          /\ IsPrefix(invoked, ActiveSteps)
    /\ (Terminated /\ Raised) => (Printed("error") /\ exitCode = 1)

UnexpectedErrorWitness ==
    /\ Printed("error")
    /\ Terminated
    /\ Last(invoked) = "ConfigNormalize"
    /\ exitCode = 1

\* C18: summary references match headers.  In a Completed run the lint and
\* build step numbers named in the summary are the X of the LintFix and Build
\* headers of the same run, with and without the skip flag.
SummaryMatchesHeaders ==
    outcome = "completed" =>
        \A i \in 1..Len(out) : out[i].kind = "summary" =>
            \E j \in 1..Len(out) :
                out[j].kind = "header" /\ out[j].step = out[i].step /\ out[j].x = out[i].x

SummaryMatchesHeadersWitness ==
    /\ outcome = "completed"
    /\ SkipFlagGiven
    /\ \E i \in 1..Len(out) : out[i].kind = "summary" /\ out[i].step = "LintFix" /\ out[i].x = 4
    /\ \E i \in 1..Len(out) : out[i].kind = "summary" /\ out[i].step = "Build" /\ out[i].x = 5

\* C17: lint failure is recorded.  When LintFix has returned a failure, some
\* line about the lint step other than its success line (a failure line, the
\* tool's error text or the tool's output) is on the console after the LintFix
\* header and before the Build header, whatever the result carries.
LintFailureRecorded ==
    Failed("LintFix") =>
        \E h, i \in 1..Len(out) :
            /\ out[h].kind = "header" /\ out[h].step = "LintFix"
            /\ h < i
            /\ out[i].step = "LintFix"
            /\ out[i].kind \in {"fail", "warn", "log"}
            /\ \A b \in 1..Len(out) : (out[b].kind = "header" /\ out[b].step = "Build") => i < b

\* C19: the skip flag affects only the scan.  In a terminated run whose scan
\* was skipped or found nothing, the non-scan steps invoked, the halting step
\* and the exit status are determined by the results of the non-scan steps
\* alone, by a rule in which the skip flag does not occur; two runs that differ
\* only in the flag and get the same results therefore agree on all three.
NonScanSteps == Tail(Steps)
Stops(s) == ~results[s].returned \/ (s \in FatalSteps /\ ~results[s].success)

SkipAffectsOnlyScan ==
    (Terminated /\ ~HelpFlagGiven /\ (SkipFlagGiven \/ Succeeded("Scan"))) =>
        /\ IsPrefix(SelectSeq(invoked, LAMBDA t : t # "Scan"), NonScanSteps)
        /\ \A i \in 1..Len(NonScanSteps) :
              InSeq(NonScanSteps[i], invoked) <=> (\A j \in 1..(i - 1) : ~Stops(NonScanSteps[j]))
        /\ exitCode = (IF \E i \in 1..Len(NonScanSteps) : Stops(NonScanSteps[i]) THEN 1 ELSE 0)
        /\ outcome = "halted" <=> (\E i \in 1..Len(NonScanSteps) : Failed(NonScanSteps[i]) /\ Stops(NonScanSteps[i]))
        /\ outcome = "halted" => Stops(Last(invoked))
        /\ InSeq("Scan", invoked) <=> ~SkipFlagGiven

SkipAffectsOnlyScanWitness ==
    /\ SkipFlagGiven
    /\ Terminated
    /\ Failed("LintFix")
    /\ Failed("Build")
    /\ Len(invoked) = 5

\* The process is single-threaded and runs until it exits; a call in progress
\* returns or raises.
FairSpec == Spec /\ WF_vars(Next)

PcRank(p) ==
    CASE p = "start" -> 0
      [] p = "scan" -> 1      [] p = "scanWait" -> 2
      [] p = "dep" -> 3       [] p = "depWait" -> 4
      [] p = "eslint" -> 5    [] p = "eslintWait" -> 6
      [] p = "pkg" -> 7       [] p = "pkgWait" -> 8
      [] p = "lint" -> 9      [] p = "lintWait" -> 10
      [] p = "build" -> 11    [] p = "buildWait" -> 12
      [] p = "complete" -> 13
      [] p = "exited" -> 14
      [] OTHER -> 0

TerminalOK ==
    Terminated =>
        /\ \/ outcome = "help" /\ exitCode = 0
           \/ outcome = "halted" /\ exitCode = 1
           \/ outcome = "error" /\ exitCode = 1
           \/ outcome = "completed" /\ exitCode = 0
        /\ \A t \in StepNames : Count(t, invoked) <= 1

\* C20: termination.  Provided every call returns or raises, every run
\* eventually exits; at the exit it is in exactly one of help-exit (0), Halted
\* (1, by a failed step or a raised error) or Completed (0) with every step
\* invoked at most once; after the exit nothing changes, and the run only
\* moves forward through main.
Termination ==
    /\ <>Terminated
    /\ []TerminalOK
    /\ [][Terminated => UNCHANGED vars]_vars
    /\ [][PcRank(pc') > PcRank(pc)]_vars

TerminationWitness ==
    /\ Terminated
    /\ outcome = "completed"
    /\ Len(invoked) = 6

----------------------------------------------------------------------------
(* Properties of the file mutators and of the scanner *)

\* written is the project as the latest application found it
LastApplied(s) == invoked # <<>> /\ Last(invoked) = s
NoActionLine == Last(out).kind = "succeed"

\* C13: ManifestPatcher is idempotent.  Applied to a well-formed manifest that
\* was patched before, the patch leaves the file (platform list and
\* formatting) as it found it, reports success and records no action; applied
\* to a manifest that already lists the target platform it leaves the file as
\* it found it, the first time too.
ManifestIdempotent ==
    (LastApplied("ManifestPatch") /\ written.manifest.ok) =>
        /\ Count("ManifestPatch", invoked) >= 2 =>
              /\ project.manifest = written.manifest
              /\ results["ManifestPatch"].success
              /\ results["ManifestPatch"].actions = <<>>
              /\ NoActionLine
        /\ (written.manifest.hasPlatforms /\ InSeq(TargetPlatform, written.manifest.platforms)) =>
              /\ project.manifest = written.manifest
              /\ results["ManifestPatch"].success
              /\ results["ManifestPatch"].actions = <<>>

ManifestIdempotentWitness ==
    /\ LastApplied("ManifestPatch")
    /\ Count("ManifestPatch", invoked) = 2
    /\ project0.manifest.ok
    /\ project0.manifest.hasPlatforms
    /\ project0.manifest.platforms = <<"macOS">>
    /\ project.manifest.platforms = <<"macOS", "Windows">>

\* C14 as claimed: after any number of patches of a well-formed manifest the
\* original entries are a prefix of the list and the target platform appears
\* exactly once; if the field was absent the list is the required one.
PlatformsPreservedExactlyOnce ==
    (InSeq("ManifestPatch", invoked) /\ project0.manifest.ok) =>
        IF project0.manifest.hasPlatforms
        THEN /\ IsPrefix(project0.manifest.platforms, project.manifest.platforms)
             /\ Count(TargetPlatform, project.manifest.platforms) = 1
        ELSE project.manifest.platforms = RequiredPlatforms

\* C14 amended: the original entries are a prefix of the list, nothing but at
\* most one target platform is added, and the target platform appears as
\* often as it did originally if it was listed, once otherwise.
PlatformsPreserved ==
    (InSeq("ManifestPatch", invoked) /\ project0.manifest.ok) =>
        LET orig == project0.manifest.platforms
            now  == project.manifest.platforms
        IN  /\ project.manifest.hasPlatforms
            /\ project.manifest.format = project0.manifest.format
            /\ IF project0.manifest.hasPlatforms
               THEN /\ IsPrefix(orig, now)
                    /\ now = IF InSeq(TargetPlatform, orig) THEN orig ELSE Append(orig, TargetPlatform)
                    /\ Count(TargetPlatform, now) =
                          IF InSeq(TargetPlatform, orig) THEN Count(TargetPlatform, orig) ELSE 1
               ELSE now = RequiredPlatforms

PlatformsPreservedWitness ==
    /\ Count("ManifestPatch", invoked) >= 2
    /\ project0.manifest.hasPlatforms
    /\ project0.manifest.platforms = <<"macOS", "macOS">>
    /\ project.manifest.platforms = <<"macOS", "macOS", "Windows">>

\* C15: ConfigNormalizer is idempotent.  Applied to a canonical configuration,
\* its own earlier output included, it leaves the file as it found it, reports
\* success with an empty action list and no action line is printed; whatever
\* it writes is canonical.
ConfigIdempotent ==
    LastApplied("ConfigNormalize") =>
        /\ results["ConfigNormalize"].success => project.lint = "canonical"
        /\ written.lint = "canonical" =>
              /\ project.lint = written.lint
              /\ results["ConfigNormalize"].success
              /\ results["ConfigNormalize"].actions = <<>>
              /\ NoActionLine

ConfigIdempotentWitness ==
    /\ LastApplied("ConfigNormalize")
    /\ Count("ConfigNormalize", invoked) = 2
    /\ project0.lint = "legacy"
    /\ project.lint = "canonical"
    /\ results["ConfigNormalize"].actions = <<>>

\* C16: scanner result.  Once the scan has returned, hasAppleScript is true
\* exactly when some scanned file holds a marker and exactly when files is not
\* empty, files holds every such file once and no other file, and the run is
\* halted by the scan exactly in that case.
ScannerResult ==
    Returned("Scan") =>
        LET r == appleScriptCheck
            matches == {p \in Paths : project.files[p] = "marker"}
        IN  /\ r.hasAppleScript <=> matches # {}
            /\ r.hasAppleScript <=> r.files # <<>>
            /\ \A p \in Paths : Count(p, r.files) = (IF p \in matches THEN 1 ELSE 0)
            /\ \A i \in 1..Len(r.files) : r.files[i] \in matches
            /\ (outcome = "halted" /\ Last(invoked) = "Scan") <=> matches # {}

ScannerResultWitness ==
    /\ Returned("Scan")
    /\ project.files[1] = "skipped"
    /\ project.files[NumFiles] = "marker"
    /\ appleScriptCheck.hasAppleScript
    /\ Len(appleScriptCheck.files) = NumFiles - 1
    /\ outcome = "halted"
====
